---- MODULE Spec2Model ----
(***************************************************************************)
(* Chaikin corner cutting with undo (src/main.py, class Polygon).          *)
(*                                                                         *)
(* Coordinates and ratios are Python floats.  They are modelled as a       *)
(* binary floating-point format of the same shape as binary64 (round to    *)
(* nearest, ties to even, gradual underflow) with Precision significand    *)
(* bits instead of 53.  A number is held as an integer count of units of   *)
(* 1/Scale, Scale being the reciprocal of the smallest subnormal step.     *)
(***************************************************************************)
EXTENDS Integers, Sequences, FiniteSets, TLC

\* ------------------------------------------------------------------ bounds
Precision == 4        \* significand bits of the modelled float
MaxIter == 2          \* largest `iterations` argument tried
MaxCuts == 2          \* cut calls tried in one run
MaxCorners == 4       \* cut is tried while the polygon has at most so many corners
MaxPolygons == 2      \* largest collection handed to run
MaxSteps == 4         \* the advance command is tried while iteration_count is below
CornerLimit == 12     \* the ceiling of run (1e6 in the program), scaled down to
                      \* the corner lists held here

\* ------------------------------------------------------- module constants
ITERATIONS == 1
INVERT == FALSE

\* ------------------------------------------------------ float arithmetic
TwoP == 2 ^ Precision
Scale == 2 ^ (2 * Precision)
One == Scale
Half == Scale \div 2

RECURSIVE Ulp(_, _, _)
\* spacing of the representable numbers around q/d: the least power of two
\* u with q/d < u * 2^Precision
Ulp(q, d, u) == IF q < u * TwoP * d THEN u ELSE Ulp(q, d, 2 * u)

\* nearest integer to q/d (q >= 0, d > 0), ties to even
RoundInt(q, d) ==
    LET f == q \div d
        r == q % d
    IN  IF 2 * r < d THEN f
        ELSE IF 2 * r > d THEN f + 1
        ELSE IF f % 2 = 0 THEN f ELSE f + 1

\* the float nearest to q/d units
Round(q, d) ==
    LET m == IF q < 0 THEN 0 - q ELSE q
        u == Ulp(m, d, 1)
        n == u * RoundInt(m, d * u)
    IN  IF q < 0 THEN 0 - n ELSE n

FAdd(x, y) == Round(x + y, 1)
FSub(x, y) == Round(x - y, 1)
FMul(x, y) == Round(x * y, Scale)
\* the float a decimal literal n/d denotes
Lit(n, d) == Round(n * Scale, d)

\* pygame.Vector2 from a tuple of ints
Vector2(x, y) == <<Lit(x, 1), Lit(y, 1)>>

\* lerp with the two weights exchanged
lerp_swapped(a, b, t) ==
    <<FAdd(FMul(a[1], t), FMul(b[1], FSub(One, t))),
      FAdd(FMul(a[2], t), FMul(b[2], FSub(One, t)))>>

\* pygame.Vector2.lerp: self * (1 - t) + other * t, per axis
lerp(a, b, t) ==
    <<FAdd(FMul(a[1], FSub(One, t)), FMul(b[1], t)),
      FAdd(FMul(a[2], FSub(One, t)), FMul(b[2], t))>>

\* ---------------------------------------------------------------- Polygon
\* a constructor that rejects an open filled polygon
PolygonInit_checked(cs, closed, filled, remember) ==
    [err |-> IF ~closed /\ filled THEN "InvalidConfiguration" ELSE "none",
     obj |-> [corners  |-> cs,
              closed   |-> closed,
              filled   |-> filled,
              remember |-> remember,
              memory   |-> <<>>,
              draw     |-> IF closed /\ filled THEN "draw_closed_filled"
                                               ELSE "draw_empty"]]

PolygonInit(cs, closed, filled, remember) ==
    [err |-> "none",
     obj |-> [corners  |-> cs,
              closed   |-> closed,
              filled   |-> filled,
              remember |-> remember,
              memory   |-> <<>>,
              draw     |-> IF closed /\ filled THEN "draw_closed_filled"
                                               ELSE "draw_empty"]]

\* the ratio used as given
normalize_none(ratio) == ratio

\* ratio - 1 in place of 1 - ratio
normalize_wrongSign(ratio) == IF ratio > Half THEN FSub(ratio, One) ELSE ratio

\* "Avoid cutting over the line midpoint"
normalize(ratio) == IF ratio > Half THEN FSub(One, ratio) ELSE ratio

RECURSIVE Emit_invertLost(_, _, _, _, _)
\* an inversion that writes the second cut corner over the first and loses the first
Emit_invertLost(cs, i, n_corners, ratio, inv) ==
    IF i > n_corners THEN <<>>
    ELSE LET a == cs[i]
             b == cs[(i % Len(cs)) + 1]
             p1 == lerp(a, b, ratio)
             p2 == lerp(b, a, ratio)
         IN  (IF inv THEN <<p2, p2>> ELSE <<p1, p2>>)
                 \o Emit_invertLost(cs, i + 1, n_corners, ratio, inv)

RECURSIVE Emit(_, _, _, _, _)
\* for i in range(n_corners): the two corners cut from edge i and those of the edges after it
Emit(cs, i, n_corners, ratio, inv) ==
    IF i > n_corners THEN <<>>
    ELSE LET a == cs[i]
             b == cs[(i % Len(cs)) + 1]
             p1 == lerp(a, b, ratio)
             p2 == lerp(b, a, ratio)
         IN  (IF inv THEN <<p2, p1>> ELSE <<p1, p2>>)
                 \o Emit(cs, i + 1, n_corners, ratio, inv)

\* a pass that leaves the cut endpoints of an open polygon in place
CutPass_noEndpoints(cs, closed, ratio, inv) ==
    LET n_corners == IF closed THEN Len(cs) ELSE Len(cs) - 1
        new_corners == Emit(cs, 1, n_corners, ratio, inv)
    IN  IF n_corners >= 1 /\ (ratio < 0 \/ ratio > One)
        THEN [err |-> "ValueError", corners |-> cs]
        ELSE IF ~closed /\ Len(new_corners) = 0
        THEN [err |-> "IndexError", corners |-> cs]
        ELSE [err |-> "none", corners |-> new_corners]

\* a pass that cuts the wraparound edge of an open polygon too
CutPass_wrapOpen(cs, closed, ratio, inv) ==
    LET n_corners == Len(cs)
        new_corners == Emit(cs, 1, n_corners, ratio, inv)
    IN  IF n_corners >= 1 /\ (ratio < 0 \/ ratio > One)
        THEN [err |-> "ValueError", corners |-> cs]
        ELSE IF ~closed
        THEN IF Len(new_corners) = 0
             THEN [err |-> "IndexError", corners |-> cs]
             ELSE [err |-> "none",
                   corners |-> [new_corners EXCEPT
                                   ![1] = cs[1],
                                   ![Len(new_corners)] = cs[Len(cs)]]]
        ELSE [err |-> "none", corners |-> new_corners]

\* a pass that takes an open polygon to have one edge fewer than it has
CutPass_dropEdge(cs, closed, ratio, inv) ==
    LET n_corners == IF closed THEN Len(cs) ELSE Len(cs) - 2
        new_corners == Emit(cs, 1, n_corners, ratio, inv)
    IN  IF n_corners >= 1 /\ (ratio < 0 \/ ratio > One)
        THEN [err |-> "ValueError", corners |-> cs]
        ELSE IF ~closed
        THEN IF Len(new_corners) = 0
             THEN [err |-> "IndexError", corners |-> cs]
             ELSE [err |-> "none",
                   corners |-> [new_corners EXCEPT
                                   ![1] = cs[1],
                                   ![Len(new_corners)] = cs[Len(cs)]]]
        ELSE [err |-> "none", corners |-> new_corners]

\* one pass of the loop body of cut over the corner list cs
CutPass(cs, closed, ratio, inv) ==
    LET n_corners == IF closed THEN Len(cs) ELSE Len(cs) - 1
        new_corners == Emit(cs, 1, n_corners, ratio, inv)
    IN  IF n_corners >= 1 /\ (ratio < 0 \/ ratio > One)
        THEN [err |-> "ValueError", corners |-> cs]
        ELSE IF ~closed
        THEN IF Len(new_corners) = 0
             THEN [err |-> "IndexError", corners |-> cs]
             ELSE [err |-> "none",
                   corners |-> [new_corners EXCEPT
                                   ![1] = cs[1],
                                   ![Len(new_corners)] = cs[Len(cs)]]]
        ELSE [err |-> "none", corners |-> new_corners]

RECURSIVE CutLoop(_, _, _, _, _)
\* for _ in range(iterations): stops at the first pass that raises
CutLoop(cs, closed, ratio, k, inv) ==
    IF k <= 0 THEN [err |-> "none", corners |-> cs]
    ELSE LET s == CutPass(cs, closed, ratio, inv)
         IN  IF s.err # "none" THEN s
             ELSE CutLoop(s.corners, closed, ratio, k - 1, inv)

\* a cut that remembers the corners it produced
cut_pushAfter(p, ratio, iterations, inv) ==
    LET r == normalize(ratio)
        s == CutLoop(p.corners, p.closed, r, iterations, inv)
        mem == IF p.remember THEN Append(p.memory, s.corners) ELSE p.memory
    IN  [err |-> s.err,
         ratio |-> r,
         obj |-> [p EXCEPT !.memory = mem, !.corners = s.corners]]

\* a cut that remembers whatever the remember flag says
cut_alwaysPush(p, ratio, iterations, inv) ==
    LET mem == Append(p.memory, p.corners)
        r == normalize(ratio)
        s == CutLoop(p.corners, p.closed, r, iterations, inv)
    IN  [err |-> s.err,
         ratio |-> r,
         obj |-> [p EXCEPT !.memory = mem, !.corners = s.corners]]

\* a cut that remembers nothing when asked for no pass
cut_skipZero(p, ratio, iterations, inv) ==
    LET mem == IF p.remember /\ iterations > 0
               THEN Append(p.memory, p.corners) ELSE p.memory
        r == normalize(ratio)
        s == CutLoop(p.corners, p.closed, r, iterations, inv)
    IN  [err |-> s.err,
         ratio |-> r,
         obj |-> [p EXCEPT !.memory = mem, !.corners = s.corners]]

cut(p, ratio, iterations, inv) ==
    LET mem == IF p.remember THEN Append(p.memory, p.corners) ELSE p.memory
        r == normalize(ratio)
        s == CutLoop(p.corners, p.closed, r, iterations, inv)
    IN  [err |-> s.err,
         ratio |-> r,
         obj |-> [p EXCEPT !.memory = mem, !.corners = s.corners]]

\* an undo that leaves the corners it restores in memory
undo_cut_keep(p) ==
    IF Len(p.memory) > 0
    THEN [p EXCEPT !.corners = p.memory[Len(p.memory)]]
    ELSE p

\* an undo that takes the oldest remembered corners
undo_cut_oldest(p) ==
    IF Len(p.memory) > 0
    THEN [p EXCEPT !.corners = p.memory[1],
                   !.memory = SubSeq(p.memory, 2, Len(p.memory))]
    ELSE p

undo_cut(p) ==
    IF Len(p.memory) > 0
    THEN [p EXCEPT !.corners = p.memory[Len(p.memory)],
                   !.memory = SubSeq(p.memory, 1, Len(p.memory) - 1)]
    ELSE p

\* ----------------------------------------------------------------- inputs
Empty == <<>>
Single == <<Vector2(1, 1)>>
Segment == <<Vector2(1, 0), Vector2(4, 3)>>
Triangle == <<Vector2(0, 0), Vector2(4, 0), Vector2(0, 4)>>
Shapes == {Empty, Single, Segment, Triangle}

\* constructor arguments tried: every shape open and closed, with and without
\* undo, and the triangle also filled
Args ==
    [corners : Shapes, closed : BOOLEAN, filled : {FALSE}, remember : BOOLEAN]
    \cup [corners : {Triangle}, closed : BOOLEAN, filled : {TRUE}, remember : {TRUE}]

Ratios == {Lit(0 - 1, 4), Lit(0, 1), Lit(1, 10), Lit(1, 4), Lit(1, 2),
           Lit(3, 4), Lit(9, 10), Lit(5, 4)}

\* ------------------------------------------------------------------ state
VARIABLES
    poly,       \* the Polygon object
    made,       \* what the constructor was given and how it ended
    last,       \* the latest call: for a cut its arguments, its outcome and the object
                \* before it, for an undo_cut the call it follows
    path,       \* with remember: the corner lists an undo is expected to step back through
    calls,      \* under SpecChain: ratio and iterations of the cuts not yet undone, oldest first
    cuts,       \* cut calls so far
    nUndo,      \* undo_cut calls since the latest cut
    polygons,   \* run: the collection it was handed
    iteration_count,
    corner_count,
    running,
    loop,       \* run: "events" while the loop takes events, then "done" or "crashed"
    cmd         \* run: the latest command and the collection and counters before it

vars == <<poly, made, last, path, calls, cuts, nUndo,
          polygons, iteration_count, corner_count, running, loop, cmd>>
runVars == <<polygons, iteration_count, corner_count, running, loop, cmd>>
apiVars == <<poly, made, last, path, calls, cuts, nUndo>>

\* run is not called
RunIdle ==
    /\ polygons = <<>>
    /\ iteration_count = 0
    /\ corner_count = 0
    /\ running = FALSE
    /\ loop = "idle"
    /\ cmd = [op |-> "none"]

Init ==
    /\ \E a \in Args :
        LET c == PolygonInit(a.corners, a.closed, a.filled, a.remember)
        IN  /\ poly = c.obj
            /\ made = [corners |-> a.corners, closed |-> a.closed, filled |-> a.filled,
                       remember |-> a.remember, err |-> c.err]
            /\ last = [op |-> "init"]
            /\ path = IF a.remember THEN <<a.corners>> ELSE <<>>
            /\ calls = <<>>
            /\ cuts = 0
            /\ nUndo = 0
    /\ RunIdle

Cut ==
    /\ cuts < MaxCuts
    /\ Len(poly.corners) <= MaxCorners
    /\ \E ratio \in Ratios, iterations \in 0..MaxIter :
        \E c \in {cut(poly, ratio, iterations, INVERT)} :
            /\ poly' = c.obj
            /\ last' = [op |-> "cut", ratio |-> ratio, used |-> c.ratio,
                        iterations |-> iterations, err |-> c.err, before |-> poly]
            /\ path' = IF made.remember THEN Append(path, c.obj.corners) ELSE path
    /\ cuts' = cuts + 1
    /\ nUndo' = 0
    /\ UNCHANGED <<made, calls>>
    /\ UNCHANGED runVars

UndoCut ==
    /\ poly' = undo_cut(poly)
    /\ last' = [op |-> "undo",
                prev |-> IF last.op = "cut" THEN last ELSE [op |-> last.op]]
    /\ path' = IF Len(path) > 1 THEN SubSeq(path, 1, Len(path) - 1) ELSE path
    /\ calls' = IF Len(calls) > 0 THEN SubSeq(calls, 1, Len(calls) - 1) ELSE calls
    /\ nUndo' = IF nUndo <= MaxCuts THEN nUndo + 1 ELSE nUndo
    /\ UNCHANGED <<made, cuts>>
    /\ UNCHANGED runVars

Next == Cut \/ UndoCut

Spec == Init /\ [][Next]_vars

\* ------------------------------------------- the same calls, kept on record
\* ratios tried where every call made is kept on record
ChainRatios == {Lit(1, 10), Lit(1, 4), Lit(3, 4), Lit(5, 4)}

InitChain == Init /\ made.remember

CutRecorded ==
    /\ cuts < MaxCuts
    /\ Len(poly.corners) <= MaxCorners
    /\ \E ratio \in ChainRatios, iterations \in 0..MaxIter :
        \E c \in {cut(poly, ratio, iterations, INVERT)} :
            /\ poly' = c.obj
            /\ last' = [op |-> "cut", ratio |-> ratio, used |-> c.ratio,
                        iterations |-> iterations, err |-> c.err, before |-> poly]
            /\ path' = Append(path, c.obj.corners)
            /\ calls' = Append(calls, [ratio |-> ratio, iterations |-> iterations])
    /\ cuts' = cuts + 1
    /\ nUndo' = 0
    /\ UNCHANGED made
    /\ UNCHANGED runVars

NextChain == CutRecorded \/ UndoCut

SpecChain == InitChain /\ [][NextChain]_vars

\* -------------------------------------------------------------------- run
RATIO == Lit(1, 4)

\* the polygons a collection is made of: as in the main block, each has an edge
RunArgs ==
    [corners : {Segment, Triangle}, closed : BOOLEAN, filled : {FALSE},
     remember : BOOLEAN]
RunPolygons ==
    {PolygonInit(a.corners, a.closed, a.filled, a.remember).obj : a \in RunArgs}
Collections == UNION {[1..n -> RunPolygons] : n \in 0..MaxPolygons}

RECURSIVE SumLen(_, _)
SumLen(ps, n) == IF n = 0 THEN 0 ELSE Len(ps[n].corners) + SumLen(ps, n - 1)
\* sum(len(p.corners) for p in polygons)
Total(ps) == SumLen(ps, Len(ps))

\* a guard that also stops at the ceiling itself
LimitReached_atLimit(count) == count >= CornerLimit

\* no guard
LimitReached_never(count) == FALSE

\* if corner_count > 1e6
LimitReached(count) == count > CornerLimit

\* a decrement that goes below 0
Decrement_noFloor(count) == count - ITERATIONS

\* max(0, iteration_count - ITERATIONS)
Decrement(count) == IF count - ITERATIONS > 0 THEN count - ITERATIONS ELSE 0

InitRun ==
    /\ \E ps \in Collections :
        /\ polygons = ps
        /\ corner_count = Total(ps)
    /\ iteration_count = 0
    /\ running = TRUE
    /\ loop = "events"
    /\ cmd = [op |-> "start"]
    /\ poly = <<>> /\ made = <<>> /\ last = [op |-> "none"]
    /\ path = <<>> /\ calls = <<>> /\ cuts = 0 /\ nUndo = 0

Before == [polygons |-> polygons, iteration_count |-> iteration_count,
           corner_count |-> corner_count]

\* K_RETURN
RunAdvance ==
    /\ loop = "events"
    /\ iteration_count < MaxSteps
    /\ IF LimitReached(corner_count)
       THEN /\ cmd' = [op |-> "advance", skipped |-> TRUE, before |-> Before]
            /\ UNCHANGED <<polygons, iteration_count, corner_count, loop>>
       ELSE \E res \in {[i \in 1..Len(polygons) |->
                            cut(polygons[i], RATIO, ITERATIONS, INVERT)]} :
              LET raised == {i \in 1..Len(polygons) : res[i].err # "none"}
                  stop == IF raised = {} THEN Len(polygons) + 1
                          ELSE CHOOSE i \in raised : \A j \in raised : i <= j
              IN  /\ polygons' = [i \in 1..Len(polygons) |->
                                    IF i <= stop THEN res[i].obj ELSE polygons[i]]
                  /\ cmd' = [op |-> "advance", skipped |-> FALSE, before |-> Before]
                  /\ IF raised = {}
                     THEN /\ iteration_count' = iteration_count + ITERATIONS
                          /\ corner_count' = Total(polygons')
                          /\ loop' = loop
                     ELSE /\ loop' = "crashed"
                          /\ UNCHANGED <<iteration_count, corner_count>>
    /\ UNCHANGED running
    /\ UNCHANGED apiVars

\* K_BACKSPACE
RunRevert ==
    /\ loop = "events"
    /\ polygons' = [i \in 1..Len(polygons) |-> undo_cut(polygons[i])]
    /\ iteration_count' = Decrement(iteration_count)
    /\ corner_count' = Total(polygons')
    /\ cmd' = [op |-> "revert", before |-> Before]
    /\ UNCHANGED <<running, loop>>
    /\ UNCHANGED apiVars

\* pygame.QUIT, K_ESCAPE: the events left in the batch are still handled
RunQuit ==
    /\ loop = "events"
    /\ running
    /\ running' = FALSE
    /\ cmd' = [op |-> "quit"]
    /\ UNCHANGED <<polygons, iteration_count, corner_count, loop>>
    /\ UNCHANGED apiVars

\* while running
RunEnd ==
    /\ loop = "events"
    /\ ~running
    /\ loop' = "done"
    /\ UNCHANGED <<polygons, iteration_count, corner_count, running, cmd>>
    /\ UNCHANGED apiVars

NextRun == RunAdvance \/ RunRevert \/ RunQuit \/ RunEnd

SpecRun == InitRun /\ [][NextRun]_vars

\* ----------------------------------------------------------------- claims
IsCut == last.op = "cut"
IsUndo == last.op = "undo"
AfterCut == IsUndo /\ last.prev.op = "cut"
Quarter == Lit(1, 4)

\* C1: with remember, cut(r, k) for k >= 1 followed by one undo_cut leaves
\* corners and the memory stack exactly as they were before the cut.
C1_UndoRoundTrip ==
    (made.remember /\ AfterCut /\ last.prev.iterations >= 1)
        => /\ poly.corners = last.prev.before.corners
           /\ poly.memory = last.prev.before.memory

C1_Witness ==
    /\ made.remember /\ AfterCut
    /\ last.prev.iterations >= 1 /\ last.prev.err = "none"
    /\ poly.closed /\ poly.corners = Triangle

\* C2: with remember, undo_cut steps back through the corner lists the cuts
\* went through, latest first, and once all are undone a further undo_cut
\* leaves the constructed corners and an empty memory.
C2_UndoLIFO ==
    made.remember
        => /\ poly.corners = path[Len(path)]
           /\ poly.memory = SubSeq(path, 1, Len(path) - 1)
           /\ (IsUndo /\ nUndo > cuts)
                 => (poly.corners = made.corners /\ poly.memory = <<>>)

C2_Witness ==
    /\ made.remember /\ AfterCut
    /\ cuts = 2 /\ nUndo = 1 /\ Len(poly.memory) = 1
    /\ poly.memory[1] = made.corners
    /\ poly.corners # made.corners

C2_WitnessEmpty ==
    /\ made.remember /\ IsUndo
    /\ cuts = 2 /\ nUndo = 3
    /\ poly.corners = made.corners /\ poly.memory = <<>>

\* C3: an open polygon of at least 2 corners keeps its first and last
\* constructed corner through every cut and undo_cut.
C3_EndpointInvariance ==
    (~made.closed /\ Len(made.corners) >= 2)
        => /\ Len(poly.corners) >= 2
           /\ poly.corners[1] = made.corners[1]
           /\ poly.corners[Len(poly.corners)] = made.corners[Len(made.corners)]

C3_Witness ==
    /\ ~made.closed /\ made.corners = Triangle
    /\ IsCut /\ last.err = "none" /\ last.iterations >= 1
    /\ cuts = 2 /\ last.used > 0
    /\ Len(poly.corners) > Len(last.before.corners)
    /\ Len(last.before.corners) > 3

\* C4: a cut of k passes that returns turns N corners into N * 2^k when the
\* polygon is closed and, when it is open with N >= 2, into (N - 2) * 2^k + 2,
\* which is the rule N -> 2 (N - 1) applied k times.
C4_PointCountDoubling ==
    (IsCut /\ last.err = "none" /\ (poly.closed \/ Len(last.before.corners) >= 2))
        => Len(poly.corners) =
              IF poly.closed
              THEN Len(last.before.corners) * 2 ^ last.iterations
              ELSE (Len(last.before.corners) - 2) * 2 ^ last.iterations + 2

C4_Witness ==
    /\ IsCut /\ last.err = "none" /\ last.iterations = 2
    /\ ~poly.closed /\ Len(last.before.corners) = 3 /\ Len(poly.corners) = 6

\* C5 as stated: the closed triangle (0,0), (4,0), (0,4) cut once with ratio
\* 0.25 has the corners (1,0), (3,0), (4,1), (1,3), (0,3), (0,1).
TriangleCut ==
    /\ IsCut /\ poly.closed /\ last.before.corners = Triangle
    /\ last.ratio = Quarter /\ last.iterations = 1

C5_AsStated ==
    TriangleCut
        => poly.corners = <<Vector2(1, 0), Vector2(3, 0), Vector2(4, 1),
                            Vector2(1, 3), Vector2(0, 3), Vector2(0, 1)>>

\* C5: the closed triangle (0,0), (4,0), (0,4) cut once with ratio 0.25 has
\* the corners (1,0), (3,0), (3,1), (1,3), (0,3), (0,1), and with remember one
\* undo_cut afterwards restores (0,0), (4,0), (0,4).
C5_Scenario ==
    /\ TriangleCut
          => poly.corners = <<Vector2(1, 0), Vector2(3, 0), Vector2(3, 1),
                              Vector2(1, 3), Vector2(0, 3), Vector2(0, 1)>>
    /\ (/\ made.remember /\ AfterCut /\ poly.closed
        /\ last.prev.before.corners = Triangle
        /\ last.prev.ratio = Quarter /\ last.prev.iterations = 1)
          => poly.corners = Triangle

C5_Witness == TriangleCut /\ last.err = "none" /\ Len(poly.corners) = 6

\* C6 as stated: for 0 < r < 1, cut(r, 1) and cut(1 - r, 1) from the same
\* corners give the same corners.
C6_AsStated ==
    (IsCut /\ last.iterations = 1 /\ 0 < last.ratio /\ last.ratio < One)
        => poly.corners =
              cut(last.before, FSub(One, last.ratio), 1, INVERT).obj.corners

\* C6: for 0 < r < 1 such that 1 - (1 - r) computes r again, cut(r, 1) and
\* cut(1 - r, 1) from the same corners give the same corners.
C6_RatioSymmetry ==
    (/\ IsCut /\ last.iterations = 1 /\ 0 < last.ratio /\ last.ratio < One
     /\ FSub(One, FSub(One, last.ratio)) = last.ratio)
        => poly.corners =
              cut(last.before, FSub(One, last.ratio), 1, INVERT).obj.corners

C6_Witness ==
    /\ IsCut /\ last.iterations = 1 /\ last.err = "none"
    /\ last.ratio = Lit(3, 4) /\ last.used = Quarter
    /\ last.before.corners = Triangle
    /\ poly.corners = cut(last.before, Quarter, 1, INVERT).obj.corners

\* C7: without remember the memory stack is always empty and undo_cut leaves
\* the corners as they are.
C7_NoHistoryNoOp ==
    [][(~made.remember)
          => /\ poly.memory = <<>> /\ poly'.memory = <<>>
             /\ (last'.op = "undo" => poly'.corners = poly.corners)]_vars

C7_Witness ==
    /\ ~made.remember /\ AfterCut /\ last.prev.err = "none"
    /\ poly.memory = <<>>
    /\ Len(poly.corners) > Len(made.corners)

\* C8 as stated: cut on a polygon constructed from a non-empty corner
\* sequence never raises.
C8_AsStated ==
    (IsCut /\ made.corners # <<>>) => last.err = "none"

\* C8: cut returns without raising when the ratio lies in [0, 1] and the
\* polygon is closed or was constructed with at least 2 corners, and for
\* every polygon and ratio when iterations is 0.
C8_Totality ==
    IsCut
        => /\ (/\ 0 <= last.ratio /\ last.ratio <= One
               /\ (made.closed \/ Len(made.corners) >= 2))
                 => last.err = "none"
           /\ last.iterations = 0 => last.err = "none"

C8_Witness ==
    /\ IsCut /\ last.err = "none" /\ last.iterations = 2 /\ cuts = 2
    /\ ~made.closed /\ Len(made.corners) = 2
    /\ last.ratio = Lit(3, 4)

\* C9 as stated: constructing an open polygon with zero stroke width (filled)
\* fails with InvalidConfiguration.
C9_AsStated ==
    (~made.closed /\ made.filled) => made.err = "InvalidConfiguration"

\* C9: construction checks nothing: it succeeds for every corner sequence and
\* every combination of closed, filled and remember, the open filled one
\* included, and yields the polygon with those corners and an empty memory.
C9_ConstructionTotal ==
    /\ made.err = "none"
    /\ poly.closed = made.closed
    /\ poly.filled = made.filled
    /\ poly.remember = made.remember
    /\ poly.draw = IF made.closed /\ made.filled THEN "draw_closed_filled"
                                                 ELSE "draw_empty"
    /\ last.op = "init" => (poly.corners = made.corners /\ poly.memory = <<>>)

C9_Witness ==
    /\ last.op = "init" /\ ~made.closed /\ made.filled
    /\ poly.corners = Triangle /\ poly.draw = "draw_empty"

\* C10 as stated: the ratio cut interpolates with is above 0 and at most 0.5
\* whatever ratio is passed.
C10_AsStated ==
    IsCut => (0 < last.used /\ last.used <= Half)

\* C10: the ratio cut interpolates with is at most 0.5 whatever ratio is
\* passed, and it is above 0 exactly when the ratio passed is above 0 and
\* below 1.
C10_RatioNormalization ==
    IsCut
        => /\ last.used <= Half
           /\ (0 < last.used) <=> (0 < last.ratio /\ last.ratio < One)

C10_Witness ==
    /\ IsCut /\ last.ratio = Lit(9, 10) /\ last.used = FSub(One, Lit(9, 10))
    /\ 0 < last.used /\ last.used < Half /\ last.err = "none"
    /\ Len(last.before.corners) >= 2 /\ last.iterations >= 1
\* C11 as stated: a polygon constructed from a non-empty corner sequence has
\* at least 2 corners in every state, and no cut leaves it fewer corners than
\* it had.
C11_AsStated ==
    made.corners # <<>>
        => /\ Len(poly.corners) >= 2
           /\ IsCut => Len(poly.corners) >= Len(last.before.corners)

\* C11: a polygon constructed with at least 2 corners has at least 2 corners
\* in every state, and no cut of any polygon leaves it fewer corners than it
\* had.
C11_PointCount ==
    /\ Len(made.corners) >= 2 => Len(poly.corners) >= 2
    /\ IsCut => Len(poly.corners) >= Len(last.before.corners)

C11_Witness ==
    /\ IsCut /\ last.err = "none" /\ last.iterations = 1
    /\ ~made.closed /\ Len(made.corners) = 2
    /\ Len(last.before.corners) = 2 /\ Len(poly.corners) = 2
    /\ poly.corners = made.corners

\* C12: with remember every cut call, whatever its iterations, adds exactly
\* one entry to memory, the corners held when it was called; with
\* iterations = 0 the corners stay as they are and the entry is added all
\* the same.
C12_OneSnapshotPerCall ==
    (IsCut /\ made.remember)
        => /\ Len(poly.memory) = Len(last.before.memory) + 1
           /\ poly.memory = Append(last.before.memory, last.before.corners)
           /\ last.iterations = 0 => poly.corners = last.before.corners

C12_Witness ==
    /\ IsCut /\ made.remember /\ last.iterations = 2 /\ last.err = "none"
    /\ Len(last.before.memory) = 1 /\ Len(poly.memory) = 2
    /\ poly.corners # last.before.corners

C12_WitnessZero ==
    /\ IsCut /\ made.remember /\ last.iterations = 0
    /\ Len(poly.memory) = 1 /\ poly.memory[1] = poly.corners
\* the corners the latest cut, one pass that returned, would have produced
\* with the inversion toggle the other way
OnePass == IsCut /\ last.iterations = 1 /\ last.err = "none"
Inverted == CutPass(last.before.corners, poly.closed, last.used, ~INVERT).corners
Range(f) == {f[j] : j \in 1..Len(f)}
Edges == 1..(Len(poly.corners) \div 2)

\* C14 as stated: one pass with inversion gives the same set of points as
\* without, each edge's two points in the other order.
C14_AsStated ==
    OnePass
        => /\ Range(Inverted) = Range(poly.corners)
           /\ \A i \in Edges :
                 {Inverted[2 * i - 1], Inverted[2 * i]}
                    = {poly.corners[2 * i - 1], poly.corners[2 * i]}

\* C14: for a closed polygon one pass with inversion gives the points of a
\* pass without, each edge's two points in the other order; for an open
\* polygon this holds of every edge but the first and the last, where both
\* passes put the kept endpoint, at the two ends of the list.
C14_InversionOrder ==
    OnePass
        => /\ Len(Inverted) = Len(poly.corners)
           /\ \A i \in Edges :
                 (poly.closed \/ (1 < i /\ i < Len(poly.corners) \div 2))
                    => /\ Inverted[2 * i - 1] = poly.corners[2 * i]
                       /\ Inverted[2 * i] = poly.corners[2 * i - 1]
           /\ (~poly.closed)
                 => /\ Inverted[1] = poly.corners[1]
                    /\ Inverted[Len(Inverted)] = poly.corners[Len(poly.corners)]
           /\ poly.closed => Range(Inverted) = Range(poly.corners)

C14_Witness ==
    /\ OnePass /\ poly.closed /\ last.before.corners = Triangle
    /\ last.ratio = Quarter
    /\ Inverted # poly.corners
    /\ Inverted[3] = Vector2(1, 3) /\ poly.corners[3] = Vector2(3, 1)

C14_WitnessOpen ==
    /\ OnePass /\ ~poly.closed /\ Len(last.before.corners) = 4
    /\ last.ratio = Quarter
    /\ Inverted[3] = poly.corners[4] /\ Inverted[3] # poly.corners[3]
    /\ Range(Inverted) # Range(poly.corners)
\* the corners the i-th cut not yet undone leaves when applied to cs
Recorded(i, cs) ==
    CutLoop(cs, poly.closed, normalize(calls[i].ratio), calls[i].iterations,
            INVERT).corners

\* C13: with remember, after any cuts and undos, memory has one entry per cut
\* not yet undone; its bottom entry is the constructed corners, every entry
\* above is the recorded cut applied to the entry below, and the corners are
\* the latest such cut applied to the top entry (the constructed corners when
\* memory is empty).
C13_HistoryChain ==
    made.remember
        => /\ Len(poly.memory) = Len(calls)
           /\ poly.memory = <<>> => poly.corners = made.corners
           /\ poly.memory # <<>> => poly.memory[1] = made.corners
           /\ \A i \in 1..Len(poly.memory) :
                 Recorded(i, poly.memory[i]) =
                    IF i < Len(poly.memory) THEN poly.memory[i + 1]
                                            ELSE poly.corners

\* a cut, an undo and another cut: the corners the first cut gave are gone
C13_Witness ==
    /\ made.remember /\ IsCut /\ last.err = "none" /\ last.iterations = 1
    /\ cuts = 2 /\ Len(poly.memory) = 1
    /\ calls = <<[ratio |-> Lit(1, 10), iterations |-> 1]>>
    /\ made.corners = Triangle
    /\ poly.corners # poly.memory[1]

C13_WitnessDeep ==
    /\ made.remember /\ IsCut /\ last.err = "none"
    /\ Len(poly.memory) = 2 /\ Len(calls) = 2
    /\ calls[1].iterations >= 1 /\ calls[2].iterations >= 1
    /\ poly.memory[2] # poly.memory[1] /\ poly.corners # poly.memory[2]
\* ---------------------------------------------------------- claims on run
IsAdvance == cmd.op = "advance"
Indices == 1..Len(polygons)
\* the corner count one pass leaves of n corners
Doubled(closed, n) == IF closed THEN 2 * n ELSE 2 * (n - 1)

\* C15: an advance command that finds more corners in all polygons together
\* than the ceiling changes no polygon and no counter; any other advance
\* command cuts every polygon of the collection: each has the corner count
\* of one more pass and, with remember, one more memory entry, the corners
\* it had.
C15_GrowthSafeguard ==
    IsAdvance
        => IF Total(cmd.before.polygons) > CornerLimit
           THEN /\ cmd.skipped
                /\ polygons = cmd.before.polygons
                /\ iteration_count = cmd.before.iteration_count
                /\ corner_count = cmd.before.corner_count
           ELSE /\ ~cmd.skipped
                /\ loop # "crashed"
                /\ iteration_count = cmd.before.iteration_count + ITERATIONS
                /\ \A i \in Indices :
                      LET old == cmd.before.polygons[i]
                      IN  /\ Len(polygons[i].corners) =
                                Doubled(old.closed, Len(old.corners))
                          /\ old.remember
                                => polygons[i].memory =
                                      Append(old.memory, old.corners)

C15_Witness ==
    /\ IsAdvance /\ cmd.skipped
    /\ Len(polygons) = 2
    /\ Total(polygons) > CornerLimit
    /\ iteration_count > 0

C15_WitnessAtLimit ==
    /\ IsAdvance /\ ~cmd.skipped
    /\ Total(cmd.before.polygons) = CornerLimit
    /\ Total(polygons) = 2 * CornerLimit

\* C16: iteration_count is never negative, it is ITERATIONS times the memory
\* length of every polygon with remember, and corner_count is the number of
\* corners of all polygons together.
C16_CounterAgreement ==
    /\ iteration_count >= 0
    /\ \A i \in Indices :
          polygons[i].remember
             => iteration_count = ITERATIONS * Len(polygons[i].memory)
    /\ corner_count = Total(polygons)

\* a revert command with nothing to undo, after an advance was skipped
C16_Witness ==
    /\ cmd.op = "revert"
    /\ cmd.before.iteration_count = 0 /\ iteration_count = 0
    /\ \E i \in Indices : polygons[i].remember /\ polygons[i].memory = <<>>
    /\ \E i \in Indices : ~polygons[i].remember
    /\ corner_count > CornerLimit

\* C17: under run, started with at most the ceiling of corners (every
\* collection tried is), the corners of all polygons together never exceed
\* 2^ITERATIONS times the ceiling.
C17_BoundedGrowth ==
    Total(polygons) <= 2 ^ ITERATIONS * CornerLimit

C17_Witness ==
    /\ IsAdvance /\ ~cmd.skipped
    /\ Total(cmd.before.polygons) <= CornerLimit
    /\ Total(polygons) > CornerLimit
    /\ 2 * Total(polygons) > 2 ^ ITERATIONS * CornerLimit
====
